---- MODULE Spec2Model ----
(***************************************************************************)
(* programming-bitcoin-rs: prime-field arithmetic, the elliptic-curve      *)
(* point group over a prime field, and the secp256k1 layer (ECDSA sign /   *)
(* verify, SEC point encoding and decoding).                               *)
(*                                                                         *)
(* The library is a set of pure functions.  Each function is an operator   *)
(* translated from its Rust body; the state machine is a driver that       *)
(* issues one library call per step and records the call and its outcome.  *)
(*                                                                         *)
(* The 256-bit secp256k1 parameters are scaled to a curve of the same      *)
(* shape that TLC can enumerate: y^2 = x^3 + 7 over GF(43), 43 = 3 mod 4,  *)
(* of prime order 31 < 43.  Bytes are scaled to base-8 digits and a        *)
(* coordinate occupies 2 digits (8^2 = 64 > 43, as 256^32 > P).            *)
(***************************************************************************)
EXTENDS Integers, Sequences, FiniteSets, TLC

VARIABLES pc, call, ret

vars == <<pc, call, ret>>

(***************************************************************************)
(* Bounds of the enumeration.                                              *)
(***************************************************************************)
MaxPrime == 7
MaxNum == 8
MaxExp == 4
MaxSecret == 2
MaxLen == 5
MaxDigest == 7
MaxScalar == 8

(***************************************************************************)
(* Outcomes of a call: Result::Ok / Result::Err / a panic (abort).         *)
(***************************************************************************)
Ok(v) == [kind |-> "ok", val |-> v]

Err(e) == [kind |-> "err", val |-> e]

Panic(e) == [kind |-> "panic", val |-> e]

IsOk(r) == r.kind = "ok"

IsErr(r) == r.kind = "err"

IsPanic(r) == r.kind = "panic"

\* Result::and_then / Result::unwrap chains: the first failure is kept.
AndThen(r, f(_)) == IF IsOk(r) THEN f(r.val) ELSE r

\* Result::unwrap: an Err becomes a panic.
Unwrap(r) == IF IsErr(r) THEN Panic("unwrap") ELSE r

(***************************************************************************)
(* num-bigint / num-integer primitives.                                    *)
(***************************************************************************)
\* BigInt `%`: truncated remainder, the sign follows the dividend.
Rem(a, m) == IF a >= 0 THEN a % m ELSE 0 - ((0 - a) % m)

\* Integer::mod_floor for a positive modulus.
ModFloor(a, m) == a % m

RECURSIVE ModPowNat(_, _, _)
\* square-and-multiply on a base already reduced into [0, m)
ModPowNat(b, e, m) ==
    IF e = 0 THEN 1 % m
    ELSE LET h == ModPowNat((b * b) % m, e \div 2, m)
         IN IF e % 2 = 1 THEN (b * h) % m ELSE h

\* BigInt::modpow, defined for exponent >= 0 and modulus > 0; the sign of
\* the result follows the modulus, like mod_floor.
ModPow(b, e, m) == ModPowNat(b % m, e, m)

IsEven(n) == n % 2 = 0

(***************************************************************************)
(* finite_field.rs                                                         *)
(***************************************************************************)
FE(num, prime) == [num |-> num, prime |-> prime]

FieldElementNew(num, prime) ==
    LET n == Rem(num, prime)
    IN IF prime < n
       THEN Err("prime should be gt value")
       ELSE Ok(FE(n, prime))

FieldElementPow(self, rhs) ==
    LET exponent == IF rhs < 0 THEN (0 - 1) + self.prime + rhs ELSE rhs
    IN IF exponent < 0
       THEN Panic("negative exponentiation is not supported!")
       ELSE Ok(FE(ModPow(self.num, exponent, self.prime), self.prime))

FieldElementAdd(self, rhs) ==
    IF self.prime # rhs.prime
    THEN Err("Cannot add two numbers in different Fields")
    ELSE Ok(FE(ModFloor(self.num + rhs.num, self.prime), self.prime))

\* sub with the wrap-around branch forgetting to add the prime back
FieldElementSub_NoWrap(self, rhs) ==
    IF self.prime # rhs.prime
    THEN Err("Cannot add two numbers in different Fields")
    ELSE Ok(FE(self.num - rhs.num, self.prime))

FieldElementSub(self, rhs) ==
    IF self.prime # rhs.prime
    THEN Err("Cannot add two numbers in different Fields")
    ELSE IF self.num >= rhs.num
    THEN Ok(FE(self.num - rhs.num, self.prime))
    ELSE Ok(FE(rhs.prime - (rhs.num - self.num), rhs.prime))

FieldElementDiv(self, rhs) ==
    IF self.prime # rhs.prime
    THEN Err("Cannot add two numbers in different Fields")
    ELSE Ok(FE(Rem(self.num * ModPow(rhs.num, self.prime - 2, rhs.prime),
                   rhs.prime),
               self.prime))

FieldElementMul(self, rhs) ==
    IF self.prime # rhs.prime
    THEN Err("Cannot add two numbers in different Fields")
    ELSE Ok(FE(ModFloor(self.num * rhs.num, self.prime), self.prime))

(***************************************************************************)
(* elliptic_curve_finite_field.rs                                          *)
(***************************************************************************)
\* Option<T>: None is the empty sequence, Some(v) is <<v>>.
None == <<>>

Some(v) == <<v>>

\* two fallible operands evaluated left to right, then combined
Bind2(ra, rb, f(_, _)) ==
    IF ~IsOk(ra) THEN ra
    ELSE IF ~IsOk(rb) THEN rb
    ELSE f(ra.val, rb.val)

CurveOverFiniteField(a, b) == [a |-> a, b |-> b]

\* Option<Coordinate>: <<>> or <<x, y>>
Coordinate(x, y) == <<x, y>>

ECPoint(coordinate, curve) == [coordinate |-> coordinate, curve |-> curve]

\* new comparing y^2 with x^3 + a*x, the constant term forgotten
PointNew_NoB(coordinate, curve) ==
    IF coordinate = None
    THEN Ok(ECPoint(coordinate, curve))
    ELSE LET x == coordinate[1]
             y == coordinate[2]
             lhs == Unwrap(FieldElementMul(y, y))
             rhs == Unwrap(AndThen(FieldElementMul(x, curve.a),
                              LAMBDA v : FieldElementAdd(v, FieldElementPow(x, 3).val)))
         IN IF ~IsOk(lhs) THEN lhs
            ELSE IF ~IsOk(rhs) THEN rhs
            ELSE IF lhs.val # rhs.val
            THEN Err("Invalid coordinate")
            ELSE Ok(ECPoint(coordinate, curve))

PointNew(coordinate, curve) ==
    IF coordinate = None
    THEN Ok(ECPoint(coordinate, curve))
    ELSE LET x == coordinate[1]
             y == coordinate[2]
             lhs == Unwrap(FieldElementMul(y, y))
             rhs == Unwrap(AndThen(AndThen(FieldElementMul(x, curve.a),
                              LAMBDA v : FieldElementAdd(v, FieldElementPow(x, 3).val)),
                              LAMBDA v : FieldElementAdd(v, curve.b)))
         IN IF ~IsOk(lhs) THEN lhs
            ELSE IF ~IsOk(rhs) THEN rhs
            ELSE IF lhs.val # rhs.val
            THEN Err("Invalid coordinate")
            ELSE Ok(ECPoint(coordinate, curve))

\* the doubling arm: s = (3*x1*x1 + a) / 2 / y1
PointDouble(x1, y1, curve) ==
    LET two == FieldElementNew(2, x1.prime).val
        s == Unwrap(
               AndThen(AndThen(AndThen(AndThen(AndThen(
                 FieldElementNew(3, x1.prime),
                 LAMBDA v : FieldElementMul(v, x1)),
                 LAMBDA v : FieldElementMul(v, x1)),
                 LAMBDA v : FieldElementAdd(v, curve.a)),
                 LAMBDA v : FieldElementDiv(v, two)),
                 LAMBDA v : FieldElementDiv(v, y1)))
    IN AndThen(s, LAMBDA sv :
         LET x == Bind2(Unwrap(FieldElementMul(sv, sv)),
                        Unwrap(FieldElementMul(two, x1)),
                        LAMBDA l, r : Unwrap(FieldElementSub(l, r)))
         IN AndThen(x, LAMBDA xv :
              LET y == Unwrap(AndThen(AndThen(FieldElementSub(x1, xv),
                          LAMBDA v : FieldElementMul(v, sv)),
                          LAMBDA v : FieldElementSub(v, y1)))
              IN AndThen(y, LAMBDA yv :
                   Unwrap(PointNew(Coordinate(xv, yv), curve)))))

\* the general arm returning the third point of the chord, not its mirror image
PointChord_NoMirror(x1, y1, x2, y2, curve) ==
    LET s == Bind2(Unwrap(FieldElementSub(y2, y1)),
                   Unwrap(FieldElementSub(x2, x1)),
                   LAMBDA l, r : Unwrap(FieldElementDiv(l, r)))
    IN AndThen(s, LAMBDA sv :
         LET x == Unwrap(AndThen(AndThen(FieldElementMul(sv, sv),
                     LAMBDA v : FieldElementSub(v, x1)),
                     LAMBDA v : FieldElementSub(v, x2)))
         IN AndThen(x, LAMBDA xv :
              LET y == Unwrap(AndThen(AndThen(FieldElementSub(xv, x1),
                          LAMBDA v : FieldElementMul(v, sv)),
                          LAMBDA v : FieldElementAdd(v, y1)))
              IN AndThen(y, LAMBDA yv :
                   Unwrap(PointNew(Coordinate(xv, yv), curve)))))

\* the general arm: s = (y2 - y1) / (x2 - x1)
PointChord(x1, y1, x2, y2, curve) ==
    LET s == Bind2(Unwrap(FieldElementSub(y2, y1)),
                   Unwrap(FieldElementSub(x2, x1)),
                   LAMBDA l, r : Unwrap(FieldElementDiv(l, r)))
    IN AndThen(s, LAMBDA sv :
         LET x == Unwrap(AndThen(AndThen(FieldElementMul(sv, sv),
                     LAMBDA v : FieldElementSub(v, x1)),
                     LAMBDA v : FieldElementSub(v, x2)))
         IN AndThen(x, LAMBDA xv :
              LET y == Unwrap(AndThen(AndThen(FieldElementSub(x1, xv),
                          LAMBDA v : FieldElementMul(v, sv)),
                          LAMBDA v : FieldElementSub(v, y1)))
              IN AndThen(y, LAMBDA yv :
                   Unwrap(PointNew(Coordinate(xv, yv), curve)))))

\* add without the arm for x1 == x2 && y1 != y2
PointAdd_NoInverseArm(self, rhs) ==
    IF self.curve # rhs.curve
    THEN Err("Cannot add points on different curves")
    ELSE IF self.coordinate = None /\ rhs.coordinate = None
    THEN Unwrap(PointNew(None, self.curve))
    ELSE IF self.coordinate = None
    THEN Ok(rhs)
    ELSE IF rhs.coordinate = None
    THEN Ok(self)
    ELSE LET x1 == self.coordinate[1]
             y1 == self.coordinate[2]
             x2 == rhs.coordinate[1]
             y2 == rhs.coordinate[2]
         IN IF x1.prime # y1.prime \/ y1.prime # x2.prime \/ x2.prime # y2.prime
            THEN Err("Invalid prime numbers for self/rhs")
            ELSE IF self.coordinate = rhs.coordinate /\ y1.num = 0
            THEN Unwrap(PointNew(None, self.curve))
            ELSE IF self.coordinate = rhs.coordinate
            THEN PointDouble(x1, y1, self.curve)
            ELSE PointChord(x1, y1, x2, y2, self.curve)

\* add without the arm for p1 == p2 && y == 0
PointAdd_NoTangentArm(self, rhs) ==
    IF self.curve # rhs.curve
    THEN Err("Cannot add points on different curves")
    ELSE IF self.coordinate = None /\ rhs.coordinate = None
    THEN Unwrap(PointNew(None, self.curve))
    ELSE IF self.coordinate = None
    THEN Ok(rhs)
    ELSE IF rhs.coordinate = None
    THEN Ok(self)
    ELSE LET x1 == self.coordinate[1]
             y1 == self.coordinate[2]
             x2 == rhs.coordinate[1]
             y2 == rhs.coordinate[2]
         IN IF x1.prime # y1.prime \/ y1.prime # x2.prime \/ x2.prime # y2.prime
            THEN Err("Invalid prime numbers for self/rhs")
            ELSE IF x1 = x2 /\ y1 # y2
            THEN Unwrap(PointNew(None, self.curve))
            ELSE IF self.coordinate = rhs.coordinate
            THEN PointDouble(x1, y1, self.curve)
            ELSE PointChord(x1, y1, x2, y2, self.curve)

\* add with the identity arms ahead of the curve comparison
PointAdd_IdentityFirst(self, rhs) ==
    IF self.coordinate = None /\ rhs.coordinate = None
    THEN Unwrap(PointNew(None, self.curve))
    ELSE IF self.coordinate = None
    THEN Ok(rhs)
    ELSE IF rhs.coordinate = None
    THEN Ok(self)
    ELSE IF self.curve # rhs.curve
    THEN Err("Cannot add points on different curves")
    ELSE LET x1 == self.coordinate[1]
             y1 == self.coordinate[2]
             x2 == rhs.coordinate[1]
             y2 == rhs.coordinate[2]
         IN IF x1.prime # y1.prime \/ y1.prime # x2.prime \/ x2.prime # y2.prime
            THEN Err("Invalid prime numbers for self/rhs")
            ELSE IF x1 = x2 /\ y1 # y2
            THEN Unwrap(PointNew(None, self.curve))
            ELSE IF self.coordinate = rhs.coordinate /\ y1.num = 0
            THEN Unwrap(PointNew(None, self.curve))
            ELSE IF self.coordinate = rhs.coordinate
            THEN PointDouble(x1, y1, self.curve)
            ELSE PointChord(x1, y1, x2, y2, self.curve)

PointAdd(self, rhs) ==
    IF self.curve # rhs.curve
    THEN Err("Cannot add points on different curves")
    ELSE IF self.coordinate = None /\ rhs.coordinate = None
    THEN Unwrap(PointNew(None, self.curve))
    ELSE IF self.coordinate = None
    THEN Ok(rhs)
    ELSE IF rhs.coordinate = None
    THEN Ok(self)
    ELSE LET x1 == self.coordinate[1]
             y1 == self.coordinate[2]
             x2 == rhs.coordinate[1]
             y2 == rhs.coordinate[2]
         IN IF x1.prime # y1.prime \/ y1.prime # x2.prime \/ x2.prime # y2.prime
            THEN Err("Invalid prime numbers for self/rhs")
            ELSE IF x1 = x2 /\ y1 # y2
            THEN Unwrap(PointNew(None, self.curve))
            ELSE IF self.coordinate = rhs.coordinate /\ y1.num = 0
            THEN Unwrap(PointNew(None, self.curve))
            ELSE IF self.coordinate = rhs.coordinate
            THEN PointDouble(x1, y1, self.curve)
            ELSE PointChord(x1, y1, x2, y2, self.curve)

\* the divisors of the slope in the arm add takes: two and y1 when doubling,
\* x2 - x1 in the general arm, none in the other arms
SlopeDivisors(self, rhs) ==
    IF self.curve # rhs.curve \/ self.coordinate = None \/ rhs.coordinate = None
    THEN {}
    ELSE LET x1 == self.coordinate[1]
             y1 == self.coordinate[2]
             x2 == rhs.coordinate[1]
             y2 == rhs.coordinate[2]
         IN IF x1.prime # y1.prime \/ y1.prime # x2.prime \/ x2.prime # y2.prime
            THEN {}
            ELSE IF x1 = x2 /\ y1 # y2
            THEN {}
            ELSE IF self.coordinate = rhs.coordinate /\ y1.num = 0
            THEN {}
            ELSE IF self.coordinate = rhs.coordinate
            THEN {FieldElementNew(2, x1.prime).val, y1}
            ELSE {FieldElementSub(x2, x1).val}

RECURSIVE PointMulLoop_AlwaysAccumulate(_, _, _)
\* the loop accumulating current whatever the bit
PointMulLoop_AlwaysAccumulate(res, current, rhs) ==
    IF ~(rhs > 0)
    THEN Ok(res)
    ELSE AndThen(Unwrap(PointAdd(res, current)), LAMBDA rv :
           AndThen(Unwrap(PointAdd(current, current)), LAMBDA cv :
             PointMulLoop_AlwaysAccumulate(rv, cv, rhs \div 2)))

RECURSIVE PointMulLoop(_, _, _)
\* while rhs > 0 { if rhs & 1 > 0 { res += current }; current += current; rhs >>= 1 }
PointMulLoop(res, current, rhs) ==
    IF ~(rhs > 0)
    THEN Ok(res)
    ELSE LET r1 == IF rhs % 2 > 0 THEN Unwrap(PointAdd(res, current)) ELSE Ok(res)
         IN AndThen(r1, LAMBDA rv :
              AndThen(Unwrap(PointAdd(current, current)), LAMBDA cv :
                PointMulLoop(rv, cv, rhs \div 2)))

PointMul(self, rhs) ==
    IF rhs = 0
    THEN Unwrap(PointNew(None, self.curve))
    ELSE AndThen(Unwrap(PointNew(None, self.curve)), LAMBDA res :
           PointMulLoop(res, self, rhs))

\* the state of the loop of mul before its first iteration
MulLoopStart(self, rhs) ==
    AndThen(Unwrap(PointNew(None, self.curve)), LAMBDA res :
      Ok([res |-> res, current |-> self, rhs |-> rhs,
          doublings |-> 0, accumulations |-> 0]))

\* an iteration shifting rhs by two bits
MulIteration_ShiftTwo(l) ==
    LET r1 == IF l.rhs % 2 > 0 THEN Unwrap(PointAdd(l.res, l.current)) ELSE Ok(l.res)
    IN AndThen(r1, LAMBDA rv :
         AndThen(Unwrap(PointAdd(l.current, l.current)), LAMBDA cv :
           Ok([res |-> rv, current |-> cv, rhs |-> l.rhs \div 4,
               doublings |-> l.doublings + 1,
               accumulations |-> l.accumulations + (IF l.rhs % 2 > 0 THEN 1 ELSE 0)])))

\* one iteration of the loop of mul, the additions it makes counted
MulIteration(l) ==
    LET r1 == IF l.rhs % 2 > 0 THEN Unwrap(PointAdd(l.res, l.current)) ELSE Ok(l.res)
    IN AndThen(r1, LAMBDA rv :
         AndThen(Unwrap(PointAdd(l.current, l.current)), LAMBDA cv :
           Ok([res |-> rv, current |-> cv, rhs |-> l.rhs \div 2,
               doublings |-> l.doublings + 1,
               accumulations |-> l.accumulations + (IF l.rhs % 2 > 0 THEN 1 ELSE 0)])))

(***************************************************************************)
(* secp256k1.rs, on the scaled curve.                                      *)
(***************************************************************************)
\* field prime, P = 3 (mod 4)
P == 43

\* order of the group generated by G, a prime below P
N == 31

A == 0

B == 7

\* width in bits of the nonce drawn by sign (129 of 256, scaled to 3 of 6)
NonceBits == 3

\* number of values of a byte (256, scaled)
ByteBase == 8

\* bytes of one encoded coordinate (32, scaled)
CoordLen == 2

RECURSIVE FromBytesBE(_)
\* BigInt::from_bytes_be(Sign::Plus, bytes)
FromBytesBE(bytes) ==
    IF Len(bytes) = 0 THEN 0
    ELSE FromBytesBE(SubSeq(bytes, 1, Len(bytes) - 1)) * ByteBase
           + bytes[Len(bytes)]

RECURSIVE ToBytesBE(_)
\* BigInt::to_bytes_be().1: the magnitude in the fewest bytes, [0] for zero
ToBytesBE(n) ==
    LET m == IF n < 0 THEN 0 - n ELSE n
    IN IF m < ByteBase THEN <<m>>
       ELSE Append(ToBytesBE(m \div ByteBase), m % ByteBase)

\* Field::new: FieldElement::new(num, P), used as the element itself
FieldNew(num) == FieldElementNew(num, P).val

\* impl From<&[u8]> for Field
FieldFrom(value) == FieldNew(FromBytesBE(value))

FieldSqrt(self) == FieldElementPow(self, (P + 1) \div 4).val

Secp256k1PointNew(coordinate) ==
    PointNew(coordinate, CurveOverFiniteField(FieldNew(A), FieldNew(B)))

G == Secp256k1PointNew(Coordinate(FieldNew(12), FieldNew(12))).val

\* impl Add<&Point> for &Point (secp256k1)
Secp256k1PointAdd(self, rhs) == PointAdd(self, rhs)

\* the scalar reduced modulo the field prime
Secp256k1PointMul_ModP(self, rhs) == PointMul(self, ModFloor(rhs, P))

\* impl Mul<&BigInt> for &Point (secp256k1): the scalar is reduced modulo N
Secp256k1PointMul(self, rhs) == PointMul(self, ModFloor(rhs, N))

Signature(r, s) == [r |-> r, s |-> s]

PrivateKey(secret, point) == [secret |-> secret, point |-> point]

PrivateKeyNew(secret) ==
    AndThen(Secp256k1PointMul(G, secret), LAMBDA point :
      Ok(PrivateKey(secret, point)))

\* verify accepting every total that is not the identity
Verify_NoCompare(self, z, sig) ==
    LET s_inv == ModPow(sig.s, N - 2, N)
        u == ModFloor(z * s_inv, N)
        v == ModFloor(sig.r * s_inv, N)
    IN Bind2(Secp256k1PointMul(G, u), Secp256k1PointMul(self, v),
         LAMBDA gu, qv :
           LET total == Secp256k1PointAdd(gu, qv)
           IN IF IsOk(total)
              THEN Ok(total.val.coordinate # None)
              ELSE Ok(FALSE))

\* Point::verify; the outcome is Ok(TRUE) / Ok(FALSE) unless a
\* multiplication aborts
Verify(self, z, sig) ==
    LET s_inv == ModPow(sig.s, N - 2, N)
        u == ModFloor(z * s_inv, N)
        v == ModFloor(sig.r * s_inv, N)
    IN Bind2(Secp256k1PointMul(G, u), Secp256k1PointMul(self, v),
         LAMBDA gu, qv :
           LET total == Secp256k1PointAdd(gu, qv)
           IN IF IsOk(total)
              THEN IF total.val.coordinate # None
                   THEN Ok(total.val.coordinate[1].num = sig.r)
                   ELSE Ok(FALSE)
              ELSE Ok(FALSE))

\* PrivateKey::sign with the nonce k the RNG returned: Ok(None) or
\* Ok(Some(signature))
\* sign going on to the next nonce when k*G is the identity
Sign_RetryNextNonce(self, z, k) ==
    LET k1 == IF ModFloor(k, N) = 0 THEN k + 1 ELSE k
    IN AndThen(Secp256k1PointMul(G, k1), LAMBDA R :
         IF R.coordinate = None
         THEN Ok(None)
         ELSE LET r == R.coordinate[1].num
                  k_inv == ModPow(k1, N - 2, N)
                  s0 == ModFloor((z + r * self.secret) * k_inv, N)
                  s == IF s0 > N \div 2 THEN N - s0 ELSE s0
              IN Ok(Some(Signature(r, s))))

\* sign without the low-s normalization
Sign_NoLowS(self, z, k) ==
    AndThen(Secp256k1PointMul(G, k), LAMBDA R :
      IF R.coordinate = None
      THEN Ok(None)
      ELSE LET r == R.coordinate[1].num
               k_inv == ModPow(k, N - 2, N)
               s0 == ModFloor((z + r * self.secret) * k_inv, N)
           IN Ok(Some(Signature(r, s0))))

Sign(self, z, k) ==
    AndThen(Secp256k1PointMul(G, k), LAMBDA R :
      IF R.coordinate = None
      THEN Ok(None)
      ELSE LET r == R.coordinate[1].num
               k_inv == ModPow(k, N - 2, N)
               s0 == ModFloor((z + r * self.secret) * k_inv, N)
               s == IF s0 > N \div 2 THEN N - s0 ELSE s0
           IN Ok(Some(Signature(r, s))))

(***************************************************************************)
(* secp256k1/sec_format.rs                                                 *)
(***************************************************************************)
\* dest.copy_from_slice(src): aborts unless both have the same length
CopyFromSlice(destLen, src) ==
    IF Len(src) # destLen
    THEN Panic("source slice length does not match destination slice length")
    ELSE Ok(src)

\* impl SecFormat for Compressed
CompressedSec(pk) ==
    IF pk.point.coordinate = None
    THEN Ok(None)
    ELSE LET x == pk.point.coordinate[1].num
             y == pk.point.coordinate[2].num
             lead == IF IsEven(y) THEN 2 ELSE 3
         IN AndThen(CopyFromSlice(CoordLen, ToBytesBE(x)), LAMBDA xb :
              Ok(Some(<<lead>> \o xb)))

\* impl SecFormat for Uncompressed
UncompressedSec(pk) ==
    IF pk.point.coordinate = None
    THEN Ok(None)
    ELSE LET x == pk.point.coordinate[1].num
             y == pk.point.coordinate[2].num
         IN AndThen(CopyFromSlice(CoordLen, ToBytesBE(x)), LAMBDA xb :
              AndThen(CopyFromSlice(CoordLen, ToBytesBE(y)), LAMBDA yb :
                Ok(Some(<<4>> \o xb \o yb))))

\* the 0x04 arm of try_from
TryFromUncompressed(value) ==
    Secp256k1PointNew(Coordinate(
      FieldNew(FromBytesBE(SubSeq(value, 2, 1 + CoordLen))),
      FieldNew(FromBytesBE(SubSeq(value, 2 + CoordLen, 1 + 2 * CoordLen)))))

\* the 0x02 | 0x03 arm of try_from
TryFromCompressed(value) ==
    LET y_is_even == value[1] = 2
        x == FieldFrom(SubSeq(value, 2, 1 + CoordLen))
        alpha == Unwrap(FieldElementAdd(FieldElementPow(x, 3).val, FieldNew(B)))
    IN AndThen(alpha, LAMBDA av :
         LET beta == FieldSqrt(av)
             chosen_beta == IF y_is_even /\ IsEven(beta.num)
                            THEN beta
                            ELSE FieldNew(P - beta.num)
         IN Secp256k1PointNew(Coordinate(x, chosen_beta)))

\* try_from taking every lead byte other than 0x04 for a compressed point
TryFrom_AnyLeadCompressed(value) ==
    IF Len(value) = 0
    THEN Err("empty input")
    ELSE IF value[1] = 4 /\ Len(value) < 1 + 2 * CoordLen
    THEN Err("unacceptable length of uncompressed sec signature")
    ELSE IF value[1] = 4
    THEN TryFromUncompressed(value)
    ELSE IF Len(value) < 1 + CoordLen
    THEN Err("unacceptable length of compressed sec signature")
    ELSE TryFromCompressed(value)

\* impl TryFrom<&[u8]> for Point
TryFrom(value) ==
    IF Len(value) = 0
    THEN Err("empty input")
    ELSE IF value[1] = 4 /\ Len(value) < 1 + 2 * CoordLen
    THEN Err("unacceptable length of uncompressed sec signature")
    ELSE IF value[1] = 4
    THEN TryFromUncompressed(value)
    ELSE IF value[1] \in {2, 3} /\ Len(value) < 1 + CoordLen
    THEN Err("unacceptable length of compressed sec signature")
    ELSE IF value[1] \in {2, 3}
    THEN TryFromCompressed(value)
    ELSE Err("unacceptable lead byte")

(***************************************************************************)
(* Inputs of the field calls.                                              *)
(***************************************************************************)
IsPrime(n) == n > 1 /\ \A d \in 2..(n - 1) : n % d # 0

Primes == {p \in 2..MaxPrime : IsPrime(p)}

Nums == (0 - MaxNum)..MaxNum

\* the field elements a caller can hold: whatever new returned
FieldElems == {FieldElementNew(n, p).val : n \in Nums, p \in Primes}

Exps == (0 - MaxExp)..MaxExp

(***************************************************************************)
(* Inputs of the curve calls.                                              *)
(***************************************************************************)
\* the field GF(p) as in-range field elements
GF(p) == {FE(n, p) : n \in 0..(p - 1)}

\* every curve (a, b) with both coefficients in the same prime field
Curves ==
    UNION {{CurveOverFiniteField(a, b) : a \in GF(p), b \in GF(p)} : p \in Primes}

\* the point at infinity of a curve
Identity(curve) == PointNew(None, curve).val

\* the points the validating constructor returns for a curve
CurvePoints(curve) ==
    {Identity(curve)}
    \cup {PointNew(Coordinate(x, y), curve).val :
            <<x, y>> \in {c \in GF(curve.a.prime) \X GF(curve.a.prime) :
                            IsOk(PointNew(Coordinate(c[1], c[2]), curve))}}

\* curves whose points are added across curves: they differ in a, in b, or
\* in the field prime
MixedCurves ==
    {CurveOverFiniteField(FE(0, 5), FE(1, 5)),
     CurveOverFiniteField(FE(1, 5), FE(1, 5)),
     CurveOverFiniteField(FE(0, 5), FE(4, 5)),
     CurveOverFiniteField(FE(0, 7), FE(1, 7))}

Scalars == 0..MaxScalar

\* the elements of all the small fields
AllFieldElements == UNION {GF(p) : p \in Primes}

(***************************************************************************)
(* Inputs of the secp256k1 calls.                                          *)
(***************************************************************************)
RECURSIVE Pow(_, _)
Pow(b, e) == IF e = 0 THEN 1 ELSE b * Pow(b, e - 1)

\* secrets handed to PrivateKey::new before signing
SignSecrets == (0 - MaxSecret)..MaxSecret

\* secrets handed to PrivateKey::new before encoding: every point of the
\* group is the public point of one of them
SecSecrets == (0 - MaxSecret)..(N + MaxSecret)

\* digests: the integers of one coordinate's width, [0, 2^256) scaled
Digests == 0..(Pow(ByteBase, CoordLen) - 1)

\* the digests that get signed
SignDigests == 0..MaxDigest

\* gen_bigint(bits): a signed integer of at most that many bits
Nonces == (1 - Pow(2, NonceBits))..(Pow(2, NonceBits) - 1)

Bytes == 0..(ByteBase - 1)

\* scalars handed to a secp256k1 multiplication: negative, and beyond N and P
Secp256k1Scalars == (0 - N - MaxSecret)..(2 * N + MaxSecret)

ByteStrings == UNION {[1..n -> Bytes] : n \in 0..MaxLen}

(***************************************************************************)
(* The driver.                                                             *)
(***************************************************************************)
Init ==
    /\ pc = "idle"
    /\ call = [op |-> "none"]
    /\ ret = Ok(0)

CallNew ==
    /\ pc = "idle"
    /\ \E n \in Nums, p \in Primes :
         /\ call' = [op |-> "new", num |-> n, prime |-> p]
         /\ ret' = FieldElementNew(n, p)
    /\ pc' = "done"

CallPow ==
    /\ pc = "idle"
    /\ \E a \in FieldElems, e \in Exps :
         /\ call' = [op |-> "pow", self |-> a, rhs |-> e]
         /\ ret' = FieldElementPow(a, e)
    /\ pc' = "done"

CallAdd ==
    /\ pc = "idle"
    /\ \E a \in FieldElems, b \in FieldElems :
         /\ call' = [op |-> "add", self |-> a, rhs |-> b]
         /\ ret' = FieldElementAdd(a, b)
    /\ pc' = "done"

CallSub ==
    /\ pc = "idle"
    /\ \E a \in FieldElems, b \in FieldElems :
         /\ call' = [op |-> "sub", self |-> a, rhs |-> b]
         /\ ret' = FieldElementSub(a, b)
    /\ pc' = "done"

CallMul ==
    /\ pc = "idle"
    /\ \E a \in FieldElems, b \in FieldElems :
         /\ call' = [op |-> "mul", self |-> a, rhs |-> b]
         /\ ret' = FieldElementMul(a, b)
    /\ pc' = "done"

CallDiv ==
    /\ pc = "idle"
    /\ \E a \in FieldElems, b \in FieldElems :
         /\ call' = [op |-> "div", self |-> a, rhs |-> b]
         /\ ret' = FieldElementDiv(a, b)
    /\ pc' = "done"

CallSign ==
    /\ pc = "idle"
    /\ \E secret \in SignSecrets, z \in SignDigests, k \in Nonces :
         LET pk == PrivateKeyNew(secret)
         IN /\ call' = [op |-> "sign", secret |-> secret, point |-> pk.val.point,
                        z |-> z, k |-> k]
            /\ ret' = Sign(pk.val, z, k)
    /\ pc' = "done"

\* the (z, r, s) handed to verify after sign returned sig for digest z0: the
\* values as signed, or exactly one of them replaced
VerifyInputs(z0, sig) ==
    {<<z0, sig.r, sig.s>>}
    \cup {<<z, sig.r, sig.s>> : z \in Digests}
    \cup {<<z0, r, sig.s>> : r \in 0..(N - 1)}
    \cup {<<z0, sig.r, s>> : s \in 0..(N - 1)}

\* verify the signature just returned, as returned or with one of z, r, s
\* replaced
CallVerify ==
    /\ pc = "done"
    /\ call.op = "sign"
    /\ IsOk(ret)
    /\ ret.val # None
    /\ \E in \in VerifyInputs(call.z, ret.val[1]) :
         /\ call' = [op |-> "verify", secret |-> call.secret,
                     point |-> call.point, k |-> call.k,
                     signed_z |-> call.z, signed |-> ret.val[1],
                     z |-> in[1], sig |-> Signature(in[2], in[3])]
         /\ ret' = Verify(call.point, in[1], Signature(in[2], in[3]))
    /\ pc' = "done"

\* multiply the public point of a key
CallSecp256k1Mul ==
    /\ pc = "idle"
    /\ \E secret \in 0..(N - 1), rhs \in Secp256k1Scalars :
         LET pk == PrivateKeyNew(secret)
         IN /\ call' = [op |-> "secp256k1_mul", secret |-> secret,
                        self |-> pk.val.point, rhs |-> rhs]
            /\ ret' = Secp256k1PointMul(pk.val.point, rhs)
    /\ pc' = "done"

CallSec ==
    /\ pc = "idle"
    /\ \E secret \in SecSecrets, format \in {"Compressed", "Uncompressed"} :
         LET pk == PrivateKeyNew(secret)
         IN /\ call' = [op |-> "sec", format |-> format, secret |-> secret,
                        point |-> pk.val.point]
            /\ ret' = IF format = "Compressed"
                      THEN CompressedSec(pk.val)
                      ELSE UncompressedSec(pk.val)
    /\ pc' = "done"

\* decode the buffer the encoder just returned
CallTryFromSec ==
    /\ pc = "done"
    /\ call.op = "sec"
    /\ IsOk(ret)
    /\ ret.val # None
    /\ call' = [op |-> "try_from", value |-> ret.val[1],
                encoded |-> Some(call.point)]
    /\ ret' = TryFrom(ret.val[1])
    /\ pc' = "done"

\* decode an arbitrary buffer
CallTryFrom ==
    /\ pc = "idle"
    /\ \E value \in ByteStrings :
         /\ call' = [op |-> "try_from", value |-> value, encoded |-> None]
         /\ ret' = TryFrom(value)
    /\ pc' = "done"

CallPointNew ==
    /\ pc = "idle"
    /\ \E curve \in Curves :
         \E coordinate \in {None} \cup
                {Coordinate(x, y) : x \in GF(curve.a.prime), y \in GF(curve.a.prime)} :
           /\ call' = [op |-> "point_new", coordinate |-> coordinate, curve |-> curve]
           /\ ret' = PointNew(coordinate, curve)
    /\ pc' = "done"

\* two points of one curve
CallPointAdd ==
    /\ pc = "idle"
    /\ \E curve \in Curves :
         \E self \in CurvePoints(curve), rhs \in CurvePoints(curve) :
           /\ call' = [op |-> "point_add", self |-> self, rhs |-> rhs]
           /\ ret' = PointAdd(self, rhs)
    /\ pc' = "done"

\* two points of different curves
CallPointAddMixed ==
    /\ pc = "idle"
    /\ \E c1 \in MixedCurves, c2 \in MixedCurves :
         /\ c1 # c2
         /\ \E self \in CurvePoints(c1), rhs \in CurvePoints(c2) :
              /\ call' = [op |-> "point_add", self |-> self, rhs |-> rhs]
              /\ ret' = PointAdd(self, rhs)
    /\ pc' = "done"

\* (self + rhs) + third and self + (rhs + third), each sum through unwrap
CallPointAddTwice ==
    /\ pc = "idle"
    /\ \E curve \in Curves :
         \E self \in CurvePoints(curve), rhs \in CurvePoints(curve),
            third \in CurvePoints(curve) :
           /\ call' = [op |-> "point_add_twice", self |-> self, rhs |-> rhs,
                       third |-> third]
           /\ ret' = Ok([left |-> AndThen(Unwrap(PointAdd(self, rhs)),
                                    LAMBDA v : Unwrap(PointAdd(v, third))),
                         right |-> AndThen(Unwrap(PointAdd(rhs, third)),
                                    LAMBDA v : Unwrap(PointAdd(self, v)))])
    /\ pc' = "done"

CallPointMul ==
    /\ pc = "idle"
    /\ \E curve \in Curves :
         \E self \in CurvePoints(curve), rhs \in Scalars :
           /\ call' = [op |-> "point_mul", self |-> self, rhs |-> rhs]
           /\ ret' = PointMul(self, rhs)
    /\ pc' = "done"

\* Point::new with a coordinate whose primes are not all the prime of the curve
CallPointNewMixed ==
    /\ pc = "idle"
    /\ \E curve \in MixedCurves, x \in AllFieldElements, y \in AllFieldElements :
         /\ (x.prime # curve.a.prime \/ y.prime # curve.a.prime)
         /\ call' = [op |-> "point_new_mixed",
                     coordinate |-> Coordinate(x, y), curve |-> curve]
         /\ ret' = PointNew(Coordinate(x, y), curve)
    /\ pc' = "done"

\* mul entered: the early return for rhs == 0, or the loop about to start
MulLoopEnter(op, self, k, rhs) ==
    LET start == MulLoopStart(self, rhs)
    IN /\ call' = [op |-> op, self |-> self, k |-> k, scalar |-> rhs,
                   loop |-> start.val]
       /\ IF rhs = 0
          THEN pc' = "done" /\ ret' = Unwrap(PointNew(None, self.curve))
          ELSE pc' = "loop" /\ ret' = ret

\* mul of a point of a curve over a small prime, iteration by iteration
CallPointMulLoop ==
    /\ pc = "idle"
    /\ \E curve \in Curves :
         \E self \in CurvePoints(curve), rhs \in Scalars :
           MulLoopEnter("point_mul_loop", self, rhs, rhs)

\* mul of a secp256k1 point: the scalar reduced modulo N, then the loop
CallSecp256k1MulLoop ==
    /\ pc = "idle"
    /\ \E secret \in 0..(N - 1), rhs \in Secp256k1Scalars :
         MulLoopEnter("secp256k1_mul_loop", PrivateKeyNew(secret).val.point,
                      rhs, ModFloor(rhs, N))

\* one iteration of while rhs > zero; an aborting addition ends the call
MulLoopStep ==
    /\ pc = "loop"
    /\ call.loop.rhs > 0
    /\ LET next == MulIteration(call.loop)
       IN IF IsOk(next)
          THEN /\ call' = [call EXCEPT !.loop = next.val]
               /\ pc' = "loop"
               /\ ret' = ret
          ELSE /\ call' = call
               /\ pc' = "done"
               /\ ret' = next

\* the loop left with rhs == 0: mul returns res
MulLoopExit ==
    /\ pc = "loop"
    /\ ~(call.loop.rhs > 0)
    /\ pc' = "done"
    /\ ret' = Ok(call.loop.res)
    /\ call' = call

Return ==
    /\ pc = "done"
    /\ pc' = "idle"
    /\ call' = [op |-> "none"]
    /\ ret' = Ok(0)

NextField ==
    \/ CallNew
    \/ CallPow
    \/ CallAdd
    \/ CallSub
    \/ CallMul
    \/ CallDiv
    \/ Return

NextCurve ==
    \/ CallPointNew
    \/ CallPointAdd
    \/ CallPointAddMixed
    \/ CallPointMul
    \/ Return

NextAssoc ==
    \/ CallPointAdd
    \/ CallPointAddTwice
    \/ Return

NextScalar ==
    \/ CallSecp256k1Mul
    \/ Return

NextNewMixed ==
    \/ CallPointNewMixed
    \/ Return

NextMulLoop ==
    \/ CallPointMulLoop
    \/ CallSecp256k1MulLoop
    \/ MulLoopStep
    \/ MulLoopExit
    \/ Return

NextEcdsa ==
    \/ CallSign
    \/ CallVerify
    \/ Return

NextSec ==
    \/ CallSec
    \/ CallTryFromSec
    \/ CallTryFrom
    \/ Return

Next ==
    \/ CallNew
    \/ CallPow
    \/ CallAdd
    \/ CallSub
    \/ CallMul
    \/ CallDiv
    \/ CallPointNew
    \/ CallPointAdd
    \/ CallPointAddMixed
    \/ CallPointAddTwice
    \/ CallPointMul
    \/ CallSecp256k1Mul
    \/ CallPointMulLoop
    \/ CallSecp256k1MulLoop
    \/ MulLoopStep
    \/ MulLoopExit
    \/ CallPointNewMixed
    \/ CallSign
    \/ CallVerify
    \/ CallSec
    \/ CallTryFromSec
    \/ CallTryFrom
    \/ Return

\* all calls
Spec == Init /\ [][Next]_vars

\* the calls of finite_field.rs
SpecField == Init /\ [][NextField]_vars

\* the calls of elliptic_curve_finite_field.rs
SpecCurve == Init /\ [][NextCurve]_vars

\* sums of two and of three points
SpecAssoc == Init /\ [][NextAssoc]_vars

\* secp256k1 scalar multiplication
SpecScalar == Init /\ [][NextScalar]_vars

\* Point::new on coordinates of mixed fields
SpecNewMixed == Init /\ [][NextNewMixed]_vars

\* scalar multiplication iteration by iteration
SpecMulLoop == Init /\ [][NextMulLoop]_vars

\* sign and verify
SpecEcdsa == Init /\ [][NextEcdsa]_vars

\* SEC encoding and decoding
SpecSec == Init /\ [][NextSec]_vars

(***************************************************************************)
(* Field-element claims.                                                   *)
(***************************************************************************)
FieldOps == {"new", "pow", "add", "sub", "mul", "div"}

InRange(fe) == 0 <= fe.num /\ fe.num < fe.prime

\* C7: every FieldElement returned successfully by new, add, sub, mul, div
\* or pow has 0 <= num < prime.
C7_RangeInvariant ==
    (pc = "done" /\ call.op \in FieldOps /\ IsOk(ret)) => InRange(ret.val)

\* C8: new(num, prime) is an error whenever num >= prime and is Ok whenever
\* 0 <= num < prime.
C8_NewRejectsUnreduced ==
    (pc = "done" /\ call.op = "new") =>
        /\ (call.num >= call.prime => IsErr(ret))
        /\ ((0 <= call.num /\ call.num < call.prime) => IsOk(ret))

\* c is congruent to n modulo p and lies in [0, p)
IsResidueOf(c, n, p) == c \in 0..(p - 1) /\ \E q \in (0 - p)..p : n = c + q * p

\* C9: on operands in [0, p) of the same prime field, add, sub and mul return
\* the residue of a+b, a-b and a*b, div by a nonzero b returns the unique c
\* with c*b = a (mod p); on operands of different primes each returns an error.
C9_FieldOpsMatchReference ==
    (pc = "done" /\ call.op \in {"add", "sub", "mul", "div"}
        /\ InRange(call.self) /\ InRange(call.rhs)) =>
        LET a == call.self.num
            b == call.rhs.num
            p == call.self.prime
        IN IF call.self.prime # call.rhs.prime
           THEN IsErr(ret)
           ELSE CASE call.op = "add" ->
                       IsOk(ret) /\ ret.val.prime = p
                                 /\ IsResidueOf(ret.val.num, a + b, p)
                  [] call.op = "sub" ->
                       IsOk(ret) /\ ret.val.prime = p
                                 /\ IsResidueOf(ret.val.num, a - b, p)
                  [] call.op = "mul" ->
                       IsOk(ret) /\ ret.val.prime = p
                                 /\ IsResidueOf(ret.val.num, a * b, p)
                  [] call.op = "div" ->
                       b # 0 =>
                         /\ IsOk(ret) /\ ret.val.prime = p
                         /\ \A c \in 0..(p - 1) :
                              (c * b) % p = a <=> c = ret.val.num

\* a division 3 / 5 in GF(7) that returned 2, and a subtraction that wrapped
C9_Witness ==
    /\ pc = "done"
    /\ \/ (call.op = "div" /\ call.self = FE(3, 7) /\ call.rhs = FE(5, 7)
             /\ IsOk(ret) /\ ret.val = FE(2, 7))
       \/ (call.op = "sub" /\ call.self = FE(1, 7) /\ call.rhs = FE(5, 7)
             /\ IsOk(ret) /\ ret.val = FE(3, 7))

\* C10: dividing by the zero element of the same field is a failure, distinct
\* from the mismatched-prime failure, never an Ok field element.
C10_DivByZeroFails ==
    (pc = "done" /\ call.op = "div" /\ call.self.prime = call.rhs.prime
        /\ InRange(call.self) /\ call.rhs.num = 0) =>
        /\ ~IsOk(ret)
        /\ ret.val # "Cannot add two numbers in different Fields"

\* C11: for a nonzero a in GF(p) and a negative exponent e, also below
\* -(p-1), pow(a, e) returns the inverse of a^(-e): pow(a, e) * a^(-e) = 1.
C11_NegativeExponent ==
    (pc = "done" /\ call.op = "pow" /\ InRange(call.self)
        /\ call.self.num # 0 /\ call.rhs < 0) =>
        /\ IsOk(ret)
        /\ ret.val.prime = call.self.prime
        /\ InRange(ret.val)
        /\ (ret.val.num * Pow(call.self.num, 0 - call.rhs)) % call.self.prime = 1

(***************************************************************************)
(* ECDSA claims.                                                           *)
(***************************************************************************)
\* verify was called with exactly the digest signed and the signature returned
Unmutated == call.z = call.signed_z /\ call.sig = call.signed

\* C1: for every secret, digest and nonce for which sign returns a signature,
\* verify on the public point with the same digest and that signature
\* returns true.
C1_SignVerifyRoundTrip ==
    (pc = "done" /\ call.op = "verify" /\ Unmutated) => ret = Ok(TRUE)

\* C2: verify returns false whenever exactly one of z, r, s has been replaced
\* by a different value.
C2_MutationRejected ==
    (pc = "done" /\ call.op = "verify" /\ ~Unmutated) => ret = Ok(FALSE)

RECURSIVE RepeatedG(_)
\* G added to the identity j times
RepeatedG(j) ==
    IF j = 0 THEN Secp256k1PointNew(None).val
    ELSE PointAdd(RepeatedG(j - 1), G).val

\* the multiples of G, by repeated addition
GMultiples == [j \in 0..(N - 1) |-> RepeatedG(j)]

\* the inverse of s modulo N, for s not divisible by N
InvModN(s) == CHOOSE c \in 1..(N - 1) : (c * s) % N = 1

\* r is the x-coordinate of ((z + r*secret) / s) * G
SatisfiesVerification(secret, z, r, s) ==
    /\ s % N # 0
    /\ LET w == ((z + r * secret) * InvModN(s)) % N
       IN /\ GMultiples[w].coordinate # None
          /\ GMultiples[w].coordinate[1].num = r

\* C2 (amended): after sign returned (r, s) for digest z, verify returns false
\* for a replaced digest z' unless z' is congruent modulo N to z or to
\* -(z + 2*r*secret), for a replaced s' unless s' = N - s, and for a replaced
\* r' unless r' is the x-coordinate of ((z + r'*secret) / s) * G.
C2_MutationRejectedAmended ==
    (pc = "done" /\ call.op = "verify" /\ ~Unmutated) =>
        LET z0 == call.signed_z
            r0 == call.signed.r
            s0 == call.signed.s
            d == call.secret
        IN /\ (call.z # z0
                 /\ call.z % N # z0 % N
                 /\ call.z % N # (0 - (z0 + 2 * r0 * d)) % N) => ret = Ok(FALSE)
           /\ (call.sig.s # s0 /\ call.sig.s # N - s0) => ret = Ok(FALSE)
           /\ (call.sig.r # r0
                 /\ ~SatisfiesVerification(d, z0, call.sig.r, s0)) => ret = Ok(FALSE)

\* a verification that rejected a replaced digest, one that rejected a
\* replaced s, and one that rejected a replaced r
C2_Witness ==
    /\ pc = "done"
    /\ call.op = "verify"
    /\ call.secret = 1
    /\ call.signed.s # 0
    /\ ret = Ok(FALSE)
    /\ \/ (call.z # call.signed_z /\ call.z % N # call.signed_z % N
             /\ call.z % N # (0 - (call.signed_z + 2 * call.signed.r)) % N)
       \/ (call.sig.s # call.signed.s /\ call.sig.s # N - call.signed.s)
       \/ (call.sig.r # call.signed.r
             /\ ~SatisfiesVerification(1, call.signed_z, call.sig.r, call.signed.s))

(***************************************************************************)
(* SEC claims.                                                             *)
(***************************************************************************)
\* C3: decoding the compressed or the uncompressed encoding of a non-identity
\* point returns that point.
C3_SecRoundTrip ==
    (pc = "done" /\ call.op = "try_from" /\ call.encoded # None) =>
        (IsOk(ret) /\ ret.val = call.encoded[1])

\* n in exactly CoordLen big-endian bytes, zero-padded on the left
RECURSIVE FixedBytesBE(_, _)
FixedBytesBE(n, len) ==
    IF len = 0 THEN <<>>
    ELSE Append(FixedBytesBE(n \div ByteBase, len - 1), n % ByteBase)

\* C4: for every non-identity public point the compressed form is the parity
\* byte followed by x in exactly CoordLen bytes, the uncompressed form is 0x04
\* followed by x and y in exactly CoordLen bytes each; encoding never aborts.
C4_SecFixedLayout ==
    (pc = "done" /\ call.op = "sec" /\ call.point.coordinate # None) =>
        LET x == call.point.coordinate[1].num
            y == call.point.coordinate[2].num
        IN /\ IsOk(ret)
           /\ ret.val # None
           /\ ret.val[1] =
                IF call.format = "Compressed"
                THEN <<IF y % 2 = 0 THEN 2 ELSE 3>> \o FixedBytesBE(x, CoordLen)
                ELSE <<4>> \o FixedBytesBE(x, CoordLen) \o FixedBytesBE(y, CoordLen)

\* C5: a successful decode of lead byte 0x02 has the encoded x and an even y,
\* a successful decode of lead byte 0x03 has the encoded x and an odd y.
C5_DecodeHonoursParity ==
    (pc = "done" /\ call.op = "try_from" /\ Len(call.value) > 0
        /\ call.value[1] \in {2, 3} /\ IsOk(ret)) =>
        /\ ret.val.coordinate # None
        /\ ret.val.coordinate[1].num
             = FromBytesBE(SubSeq(call.value, 2, 1 + CoordLen)) % P
        /\ ret.val.coordinate[2].num % 2 = (IF call.value[1] = 2 THEN 0 ELSE 1)

\* the input is empty, has an unknown lead byte, or is too short for its
\* lead byte
Malformed(value) ==
    \/ Len(value) = 0
    \/ /\ Len(value) > 0
       /\ \/ value[1] \notin {2, 3, 4}
          \/ (value[1] = 4 /\ Len(value) < 1 + 2 * CoordLen)
          \/ (value[1] \in {2, 3} /\ Len(value) < 1 + CoordLen)

\* C6: try_from fails, without a point and without aborting, on an empty
\* input, on a lead byte other than 0x02, 0x03, 0x04, and on an input too
\* short for its lead byte.
C6_MalformedRejected ==
    (pc = "done" /\ call.op = "try_from" /\ Malformed(call.value)) => IsErr(ret)

\* a rejected unknown lead byte in front of the coordinate of a curve point
C6_Witness ==
    /\ pc = "done"
    /\ call.op = "try_from"
    /\ call.value = <<5, 1, 4>>
    /\ IsErr(ret)

\* ---------------------------------------------------------------------------
\* Curve claims
\* ---------------------------------------------------------------------------

\* C12: Point::new succeeds exactly when y^2 = x^3 + a*x + b in the field,
\* returns an error otherwise, and always succeeds with coordinate None.
C12_PointNewValidates ==
    (pc = "done" /\ call.op = "point_new") =>
        IF call.coordinate = None
        THEN ret = Ok(ECPoint(None, call.curve))
        ELSE LET p == call.curve.a.prime
                 x == call.coordinate[1].num
                 y == call.coordinate[2].num
                 a == call.curve.a.num
                 b == call.curve.b.num
             IN IF (y * y) % p = (x * x * x + a * x + b) % p
                THEN ret = Ok(ECPoint(call.coordinate, call.curve))
                ELSE IsErr(ret)

\* (2, 2) accepted on y^2 = x^3 + 1 over GF(5)
C12_Witness ==
    /\ pc = "done" /\ call.op = "point_new"
    /\ call.curve = CurveOverFiniteField(FE(0, 5), FE(1, 5))
    /\ call.coordinate = Coordinate(FE(2, 5), FE(2, 5))
    /\ IsOk(ret)

\* -P: the y-coordinate negated in the field
Negate(point) ==
    IF point.coordinate = None THEN point
    ELSE LET x == point.coordinate[1]
             y == point.coordinate[2]
         IN ECPoint(Coordinate(x, FE((y.prime - y.num) % y.prime, y.prime)),
                    point.curve)

\* an addition of two points of one curve
SameCurveAdd ==
    pc = "done" /\ call.op = "point_add" /\ call.self.curve = call.rhs.curve

IdentityLaws ==
    /\ call.self.coordinate = None => ret = Ok(call.rhs)
    /\ call.rhs.coordinate = None => ret = Ok(call.self)

InverseLaw ==
    (call.self.coordinate # None /\ call.rhs = Negate(call.self)) =>
        ret = Ok(Identity(call.self.curve))

\* C13: identity + P = P, P + identity = P and P + (-P) = identity for every
\* valid point P, a point with y = 0 included.
C13_IdentityAndInverse == SameCurveAdd => (IdentityLaws /\ InverseLaw)

\* C13 (amended): identity + P = P and P + identity = P on every curve;
\* P + (-P) = identity on every curve over GF(p) with p an odd prime.
C13_IdentityAndInverseOddPrime ==
    SameCurveAdd =>
        /\ IdentityLaws
        /\ call.self.curve.a.prime # 2 => InverseLaw

\* a point over GF(5) added to its mirror image, a different point
C13_Witness ==
    /\ SameCurveAdd
    /\ call.self.curve.a.prime = 5
    /\ call.self.coordinate # None
    /\ call.rhs = Negate(call.self)
    /\ ret = Ok(Identity(call.self.curve))
    /\ call.self.coordinate[2].num # 0

\* 4a^3 + 27b^2 is not zero in the field
NonSingular(curve) ==
    (4 * curve.a.num * curve.a.num * curve.a.num
        + 27 * curve.b.num * curve.b.num) % curve.a.prime # 0

Commutes == IsOk(ret) /\ PointAdd(call.rhs, call.self) = ret

Associates == IsOk(ret.val.left) /\ ret.val.left = ret.val.right

\* C14: P + Q = Q + P and (P + Q) + R = P + (Q + R) for all valid points of
\* one curve over GF(p).
C14_CommutativeAssociative ==
    /\ SameCurveAdd => Commutes
    /\ (pc = "done" /\ call.op = "point_add_twice") => Associates

\* C14 (amended): for p an odd prime, P + Q = Q + P on every curve over GF(p),
\* and (P + Q) + R = P + (Q + R) on every curve with 4a^3 + 27b^2 /= 0.
C14_CommutativeAssociativeNonSingular ==
    /\ (SameCurveAdd /\ call.self.curve.a.prime # 2) => Commutes
    /\ (pc = "done" /\ call.op = "point_add_twice"
            /\ call.self.curve.a.prime # 2 /\ NonSingular(call.self.curve)) =>
        Associates

\* three distinct points of a non-singular curve over GF(7) whose sum is a
\* point with coordinates
C14_Witness ==
    /\ pc = "done" /\ call.op = "point_add_twice"
    /\ call.self.curve.a.prime = 7 /\ NonSingular(call.self.curve)
    /\ call.self.coordinate # None /\ call.rhs.coordinate # None
    /\ call.third.coordinate # None
    /\ call.self # call.rhs /\ call.rhs # call.third /\ call.self # call.third
    /\ Associates
    /\ ret.val.left.val.coordinate # None

RECURSIVE RepeatedAdd(_, _)
\* P added to the identity k times
RepeatedAdd(point, k) ==
    IF k = 0 THEN Ok(Identity(point.curve))
    ELSE AndThen(RepeatedAdd(point, k - 1), LAMBDA v : PointAdd(v, point))

\* C15: for a scalar k >= 0, P * k is P added to itself k times, and P * 0 is
\* the identity.
C15_MulIsRepeatedAdd ==
    (pc = "done" /\ call.op = "point_mul") =>
        /\ IsOk(ret)
        /\ ret = RepeatedAdd(call.self, call.rhs)
        /\ call.rhs = 0 => ret.val = Identity(call.self.curve)

\* C15 (amended): on a curve over GF(p) with p an odd prime, P * k for k >= 0
\* is P added to itself k times, and P * 0 is the identity.
C15_MulIsRepeatedAddOddPrime ==
    (pc = "done" /\ call.op = "point_mul" /\ call.self.curve.a.prime # 2) =>
        /\ IsOk(ret)
        /\ ret = RepeatedAdd(call.self, call.rhs)
        /\ call.rhs = 0 => ret.val = Identity(call.self.curve)

\* a point over GF(7) multiplied by 5, the product a point with coordinates
\* other than P itself
C15_Witness ==
    /\ pc = "done" /\ call.op = "point_mul"
    /\ call.self.curve.a.prime = 7 /\ call.rhs = 5
    /\ call.self.coordinate # None
    /\ IsOk(ret) /\ ret.val.coordinate # None /\ ret.val # call.self
    /\ ret = RepeatedAdd(call.self, 5)

\* C16: secp256k1 scalars are reduced modulo the group order N: G * N is the
\* identity, and Q * k = Q * (k mod N) for every integer k, negative included.
C16_ScalarReducedModN ==
    (pc = "done" /\ call.op = "secp256k1_mul") =>
        /\ call.self = GMultiples[call.secret]
        /\ ret = Ok(GMultiples[(call.secret * (call.rhs % N)) % N])
        /\ ret = Secp256k1PointMul(call.self, call.rhs % N)
        /\ ret = Secp256k1PointMul(call.self, call.rhs + N)
        /\ (call.secret = 1 /\ call.rhs = N) => ret.val.coordinate = None

\* 5*G multiplied by a scalar between N and P, and by a negative one
C16_Witness ==
    /\ pc = "done" /\ call.op = "secp256k1_mul"
    /\ call.secret = 5
    /\ call.rhs = N + 7
    /\ ret = Ok(GMultiples[4])

\* an addition of points of two curves
MixedCurveAdd ==
    pc = "done" /\ call.op = "point_add" /\ call.self.curve # call.rhs.curve

\* C17: add tests identity operands before the curves: with an identity
\* operand the other operand is returned even when the curves differ, and
\* the curve mismatch error is returned only when both operands have
\* coordinates.
C17_IdentityBeforeMismatch ==
    (pc = "done" /\ call.op = "point_add") =>
        /\ IdentityLaws
        /\ ret = Err("Cannot add points on different curves") =>
              /\ call.self.coordinate # None
              /\ call.rhs.coordinate # None
              /\ call.self.curve # call.rhs.curve

\* C17 (amended): add compares the curves first: operands of different curves
\* give the curve mismatch error whatever their coordinates, an identity
\* operand included; on one curve an identity operand returns the other.
C17_MismatchBeforeIdentity ==
    /\ MixedCurveAdd => ret = Err("Cannot add points on different curves")
    /\ SameCurveAdd =>
          /\ IdentityLaws
          /\ ret # Err("Cannot add points on different curves")

\* the identity of one curve added to a point with coordinates of another
C17_Witness ==
    /\ MixedCurveAdd
    /\ call.self.coordinate = None /\ call.rhs.coordinate # None
    /\ IsErr(ret)

\* ---------------------------------------------------------------------------
\* Signature claims
\* ---------------------------------------------------------------------------

\* sign returned a signature
Signed ==
    pc = "done" /\ call.op = "sign" /\ IsOk(ret) /\ ret.val # None

\* C18: every signature returned by sign has r = R.x mod N for R = k*G, so
\* 0 <= r < N, and 0 <= s < N, also when R.x lies in [N, P).
C18_SignatureReducedModN ==
    Signed =>
        LET R == Secp256k1PointMul(G, call.k).val
            sig == ret.val[1]
        IN /\ R.coordinate # None
           /\ sig.r = R.coordinate[1].num % N
           /\ 0 <= sig.r /\ sig.r < N
           /\ 0 <= sig.s /\ sig.s < N

\* s0 = (z + r*secret) * k^(N-2) mod N, the power taken as the inverse of k
LowS_s0 ==
    ((call.z + ret.val[1].r * call.secret) * InvModN(call.k % N)) % N

\* C19: every signature returned by sign has s <= floor(N/2); s is s0 when
\* s0 <= floor(N/2) and N - s0 otherwise, s0 = (z + r*secret) * k^(N-2) mod N.
C19_LowS ==
    Signed =>
        /\ ret.val[1].s <= N \div 2
        /\ ret.val[1].s = IF LowS_s0 <= N \div 2 THEN LowS_s0 ELSE N - LowS_s0

\* a signature whose s0 was above floor(N/2) and was replaced by N - s0
C19_Witness ==
    /\ Signed
    /\ LowS_s0 > N \div 2
    /\ ret.val[1].s = N - LowS_s0

\* the criterion of verify for the public point secret*G:
\* total = u*G + v*Q is not the identity and total.x mod N = r
VerificationCriterion(secret, z, sig) ==
    /\ sig.s % N # 0
    /\ LET s_inv == InvModN(sig.s % N)
           u == (z * s_inv) % N
           v == (sig.r * s_inv) % N
           total == GMultiples[(u + v * secret) % N]
       IN /\ total.coordinate # None
          /\ total.coordinate[1].num % N = sig.r

\* C20: verify returns true exactly when total = u*G + v*Q is not the
\* identity and total.x mod N = r, and false without aborting in every other
\* case, s = 0 mod N included.
C20_VerifyCriterion ==
    (pc = "done" /\ call.op = "verify") =>
        ret = Ok(VerificationCriterion(call.secret, call.z, call.sig))

\* C21: a call of sign draws one nonce k; it returns no signature exactly
\* when k*G is the identity (k = 0 mod N), and otherwise the signature made
\* from that k, never from a second nonce.
C21_RetryFree ==
    (pc = "done" /\ call.op = "sign") =>
        /\ IsOk(ret)
        /\ ret.val = None <=> call.k % N = 0
        /\ ret.val = None <=> GMultiples[call.k % N].coordinate = None
        /\ ret.val # None =>
              ret.val[1].r = GMultiples[call.k % N].coordinate[1].num

\* sign drew k = 0 and returned no signature
C21_Witness ==
    /\ pc = "done" /\ call.op = "sign"
    /\ call.k = 0
    /\ ret = Ok(None)

\* ---------------------------------------------------------------------------
\* Closure, cost and validation claims
\* ---------------------------------------------------------------------------

\* the point is the identity or satisfies y^2 = x^3 + a*x + b, on integers
OnCurve(point) ==
    \/ point.coordinate = None
    \/ LET p == point.curve.a.prime
           x == point.coordinate[1].num
           y == point.coordinate[2].num
       IN /\ point.coordinate[1].prime = p /\ point.coordinate[2].prime = p
          /\ 0 <= x /\ x < p /\ 0 <= y /\ y < p
          /\ (y * y) % p = (x * x * x + point.curve.a.num * x + point.curve.b.num) % p

\* C22: for valid points P, Q of one curve over GF(p), p an odd prime,
\* add(P, Q) returns Ok with the identity or a point on the curve; every
\* slope division has a nonzero divisor and the result's validation does
\* not abort.
C22_Closure ==
    (SameCurveAdd /\ call.self.curve.a.prime # 2) =>
        /\ IsOk(ret)
        /\ ret.val.curve = call.self.curve
        /\ OnCurve(ret.val)
        /\ \A d \in SlopeDivisors(call.self, call.rhs) :
              d.num % call.self.curve.a.prime # 0

\* a point over GF(7) doubled, and the result a point with coordinates
C22_Witness ==
    /\ SameCurveAdd /\ call.self.curve.a.prime = 7
    /\ call.self.coordinate # None /\ call.self = call.rhs
    /\ SlopeDivisors(call.self, call.rhs) # {}
    /\ IsOk(ret) /\ ret.val.coordinate # None

\* the number of bits of n >= 0
BitLength(n) ==
    CHOOSE b \in 0..n : Pow(2, b) > n /\ (b = 0 \/ Pow(2, b - 1) <= n)

RECURSIVE BitCount(_)
\* the number of one bits of n >= 0
BitCount(n) == IF n = 0 THEN 0 ELSE (n % 2) + BitCount(n \div 2)

\* a multiplication in its loop or ended
InMul ==
    /\ pc \in {"loop", "done"}
    /\ call.op \in {"point_mul_loop", "secp256k1_mul_loop"}

\* after i iterations the i low bits of the scalar are consumed, one doubling
\* each and one accumulation for each one bit; i never exceeds the bit length,
\* and a secp256k1 scalar has no more bits than N
MulCostBounded ==
    InMul =>
        LET l == call.loop
            low == call.scalar % Pow(2, l.doublings)
        IN /\ l.doublings <= BitLength(call.scalar)
           /\ l.rhs = call.scalar \div Pow(2, l.doublings)
           /\ l.accumulations = BitCount(low)
           /\ l.accumulations <= l.doublings
           /\ call.op = "secp256k1_mul_loop" =>
                 /\ call.scalar = call.k % N
                 /\ BitLength(call.scalar) <= BitLength(N)

\* every multiplication ends after exactly bitlength iterations
MulEndsExact ==
    (InMul /\ pc = "done") => call.loop.doublings = BitLength(call.scalar)

\* a multiplication that returns has made exactly bitlength iterations and
\* returns what mul returns; over an odd prime every multiplication returns
MulReturnsExact ==
    (InMul /\ pc = "done") =>
        /\ IsOk(ret) =>
              /\ call.loop.doublings = BitLength(call.scalar)
              /\ ret = PointMul(call.self, call.scalar)
        /\ call.self.curve.a.prime # 2 => IsOk(ret)

\* a step that stays in the loop is one iteration: one more doubling, and rhs
\* smaller and not negative, so the loop cannot go on for ever
MulStepIterates ==
    (pc = "loop" /\ pc' = "loop") =>
        /\ call'.loop.doublings = call.loop.doublings + 1
        /\ call'.loop.rhs < call.loop.rhs
        /\ call'.loop.rhs >= 0

\* C23: for every k >= 0 the loop of mul takes the bits of k from the least
\* significant one, ends, and ends after exactly bitlength(k) iterations, one
\* doubling and at most one accumulation each; a secp256k1 scalar is reduced
\* modulo N first and costs no more doublings than N has bits.
C23_MulCost ==
    /\ [](MulCostBounded /\ MulEndsExact)
    /\ [][MulStepIterates]_<<pc, call>>

\* C23 (amended): the loop of mul takes the bits of k from the least
\* significant one and ends after at most bitlength(k) iterations, one
\* doubling and at most one accumulation each; a multiplication that returns,
\* as every multiplication on a curve over an odd prime does, has made
\* exactly bitlength(k) iterations; a secp256k1 scalar is reduced modulo N
\* first and costs no more doublings than N has bits.
C23_MulCostWhenReturns ==
    /\ [](MulCostBounded /\ MulReturnsExact)
    /\ [][MulStepIterates]_<<pc, call>>

\* a secp256k1 multiplication by a scalar above N that returned after as many
\* iterations as N has bits
C23_Witness ==
    /\ InMul /\ pc = "done"
    /\ call.op = "secp256k1_mul_loop"
    /\ call.k > N
    /\ IsOk(ret)
    /\ call.loop.doublings = BitLength(N)
    /\ call.loop.accumulations > 1

\* C24: Point::new with a coordinate whose field elements have a prime other
\* than the prime of the curve coefficients, or with x and y of different
\* primes, returns an error value and does not abort.
C24_MismatchIsError ==
    (pc = "done" /\ call.op = "point_new_mixed") => IsErr(ret)

\* the decoded point encoded again in the format the lead byte names
Reencoded ==
    IF call.value[1] = 4
    THEN UncompressedSec(PrivateKey(0, ret.val))
    ELSE CompressedSec(PrivateKey(0, ret.val))

\* the bytes of the input that the format of its lead byte reads
EncodingRead ==
    SubSeq(call.value, 1,
           IF call.value[1] = 4 THEN 1 + 2 * CoordLen ELSE 1 + CoordLen)

\* C25: when try_from(bytes) succeeds with a point Q, encoding Q again in the
\* format of the lead byte gives back the bytes read from the input; an
\* input with an x or y field >= P is not accepted.
C25_CanonicalDecoding ==
    (pc = "done" /\ call.op = "try_from" /\ IsOk(ret)) =>
        /\ Reencoded = Ok(Some(EncodingRead))
        /\ FromBytesBE(SubSeq(call.value, 2, 1 + CoordLen)) < P
        /\ call.value[1] = 4 =>
              FromBytesBE(SubSeq(call.value, 2 + CoordLen, 1 + 2 * CoordLen)) < P

====
